---- MODULE Spec2Model ----
(***************************************************************************)
(* Half-Wit cast receiver (src/receiver.js): the message dispatcher, the   *)
(* screen registry, the tutorial timeline and the round-results reorder    *)
(* animation, as a state machine over the host's single-threaded task      *)
(* queue.  Every action is one whole task: one handled message, one sender *)
(* event or one timer callback.                                            *)
(*                                                                         *)
(* Time is kept as the remaining delay of every pending timer.  The host   *)
(* keeps its pending timers in the order it will run them: by remaining    *)
(* delay, the earliest created first among equals; running the first lets  *)
(* its delay elapse for all others.  Timer handles are opaque: the model   *)
(* gives a new timer the smallest handle of its kind that is neither       *)
(* pending nor still held by the program, which is all the code can        *)
(* observe of a handle.                                                    *)
(***************************************************************************)
EXTENDS Integers, Sequences, FiniteSets, TLC

VARIABLES
    currentScreen,              \* let currentScreen
    active,                     \* screens whose element carries class 'active'
    status,                     \* text of the loading screen's .status element
    tutorialRunning,            \* let tutorialRunning
    tutorialTimeouts,           \* let tutorialTimeouts (handles pushed so far)
    timers,                     \* the host's pending timers, in firing order
    stepClass,                  \* classes of #tutorial-step-1..7
    stepDisplay,                \* inline style.display of #tutorial-step-1..7
    roundResultsReorderTimeout, \* let roundResultsReorderTimeout (0 is null)
    leaderboard,                \* children of the round-results .leaderboard
    roundPlayers,               \* data.players of the latest round_results
    answeringTimer,             \* urgency classes of the answering .timer-circle
    votingTimer,                \* urgency classes of the voting .timer-circle
    matchupWinners,             \* matchup-results elements carrying 'winner'
    gameBadges,                 \* badge of each game-results entry, in order
    senders,                    \* context.getSenders().length
    out,                        \* custom messages sent by the last task
    last,                       \* the last task and what it found
    quiet                       \* the senders have gone silent for good

vars == <<currentScreen, active, status, tutorialRunning, tutorialTimeouts,
          timers, stepClass, stepDisplay, roundResultsReorderTimeout,
          leaderboard, roundPlayers, answeringTimer, votingTimer,
          matchupWinners, gameBadges, senders, out, last, quiet>>

(***************************************************************************)
(* Bounds of the model.                                                    *)
(***************************************************************************)
MaxStale == 1       \* round_results events an undiscarded entry may outlive
MaxSenders == 2     \* senders attached at the same time
MaxRound == 2       \* largest roundNumber of a loading_round message
MaxPlayers == 3     \* longest generated player list
MaxScore == 1       \* largest roundScore and totalScore of a generated player
MaxSeconds == 11    \* largest generated secondsRemaining below the default 60
MaxVotes == 3       \* largest generated vote count of one side
MaxGame == 2        \* longest generated game_results list, and its worst rank
TickMs == 1000      \* the delay TimePasses lets elapse in one step

(***************************************************************************)
(* Screens and the texts the code writes.                                  *)
(***************************************************************************)
Screens ==
    {"connecting", "lobby", "tutorial", "loading", "countdown", "answering",
     "votingTransition", "matchupVoting", "matchupResults", "roundResults",
     "gameResults", "end"}

Steps == 1..7

NoTimer == 0
TutorialIdBase == 1
ReorderIdBase == 1001
SettleIdBase == 2001

CrossFadeDelay == 300
DwellDelay == 3000
SettleDelay == 850
EntryHeight == 75

\* the distance between the tops of two neighbouring entries as the page
\* lays them out (for a single entry, its offsetHeight plus 15)
EntryPitches == {75, 90}

LoadingGameStatus == "Loading Game..."
RoundOneStatus == "Loading Round 1..."

\* 'Loading Round ' + data.roundNumber + '...'
LoadingRoundStatus(roundNumber) ==
    "Loading Round " \o ToString(roundNumber) \o "..."

(***************************************************************************)
(* The host's timers.                                                      *)
(***************************************************************************)
PendingIds(ts) == {ts[i].id : i \in 1..Len(ts)}

FreshId(base, used) ==
    LET free == (base..(base + Cardinality(used))) \ used
    IN  CHOOSE n \in free : \A m \in free : n <= m

\* setTimeout(fn, delay): a pending timer with a new handle, to run after
\* every pending timer that is due no later
setTimeout(ts, id, fn, a, b, env, delay) ==
    LET ahead == Cardinality({i \in 1..Len(ts) : ts[i].due <= delay})
        t == [id |-> id, due |-> delay, fn |-> fn, a |-> a, b |-> b,
              run |-> 0, env |-> env]
    IN  SubSeq(ts, 1, ahead) \o <<t>> \o SubSeq(ts, ahead + 1, Len(ts))

\* clearTimeout(id) for every id of ids: a pending timer of that handle goes
clearTimeouts(ts, ids) ==
    SelectSeq(ts, LAMBDA t : t.id \notin ids)

TutorialFns == {"showTutorialStep", "reveal", "substep", "typeStart",
                "typeNext", "complete"}

IsTutorialTimer(t) == t.fn \in TutorialFns

TutorialPending(ts) ==
    {i \in 1..Len(ts) : IsTutorialTimer(ts[i])}

(***************************************************************************)
(* The program's state, passed through the calls of one task as a record.  *)
(***************************************************************************)
Cur ==
    [currentScreen |-> currentScreen, active |-> active,
     tutorialRunning |-> tutorialRunning,
     tutorialTimeouts |-> tutorialTimeouts, timers |-> timers,
     stepClass |-> stepClass, stepDisplay |-> stepDisplay, status |-> status,
     roundResultsReorderTimeout |-> roundResultsReorderTimeout,
     leaderboard |-> leaderboard, roundPlayers |-> roundPlayers,
     answeringTimer |-> answeringTimer, votingTimer |-> votingTimer,
     matchupWinners |-> matchupWinners, gameBadges |-> gameBadges]

Commit(s) ==
    /\ currentScreen' = s.currentScreen
    /\ active' = s.active
    /\ tutorialRunning' = s.tutorialRunning
    /\ tutorialTimeouts' = s.tutorialTimeouts
    /\ timers' = s.timers
    /\ stepClass' = s.stepClass
    /\ stepDisplay' = s.stepDisplay
    /\ status' = s.status
    /\ roundResultsReorderTimeout' = s.roundResultsReorderTimeout
    /\ leaderboard' = s.leaderboard
    /\ roundPlayers' = s.roundPlayers
    /\ answeringTimer' = s.answeringTimer
    /\ votingTimer' = s.votingTimer
    /\ matchupWinners' = s.matchupWinners
    /\ gameBadges' = s.gameBadges

\* clearTutorialTimeouts that cancels the timers startTutorial scheduled
\* and not those scheduled from inside a callback
clearTutorialTimeoutsTimelineOnly(s) ==
    [s EXCEPT !.timers =
                clearTimeouts(@, {s.timers[i].id : i \in
                    {j \in 1..Len(s.timers) :
                        /\ s.timers[j].id \in s.tutorialTimeouts
                        /\ s.timers[j].fn \notin {"reveal", "typeNext"}}}),
              !.tutorialTimeouts = {},
              !.tutorialRunning = FALSE]

\* clearTutorialTimeouts that empties the array and cancels nothing
clearTutorialTimeoutsForgets(s) ==
    [s EXCEPT !.tutorialTimeouts = {}, !.tutorialRunning = FALSE]

clearTutorialTimeouts(s) ==
    [s EXCEPT !.timers = clearTimeouts(@, s.tutorialTimeouts),
              !.tutorialTimeouts = {},
              !.tutorialRunning = FALSE]

tutorialTimeout(s, fn, a, b, delay) ==
    LET id == FreshId(TutorialIdBase,
                      PendingIds(s.timers) \cup s.tutorialTimeouts)
    IN  [s EXCEPT !.timers = setTimeout(@, id, fn, a, b, <<>>, delay),
                  !.tutorialTimeouts = @ \cup {id}]

\* showScreen without the loop that removes 'active' from every screen
showScreenKeepsOthers(s, screenName) ==
    LET s1 == IF s.currentScreen = "tutorial" /\ screenName # "tutorial"
              THEN clearTutorialTimeouts(s)
              ELSE s
    IN  IF screenName \in Screens
        THEN [s1 EXCEPT !.active = @ \cup {screenName},
                        !.currentScreen = screenName]
        ELSE s1

\* showScreen that does not interrupt a running tutorial
showScreenTutorialSticky(s, screenName) ==
    IF s.tutorialRunning /\ s.currentScreen = "tutorial"
    THEN s
    ELSE IF screenName \in Screens
         THEN [s EXCEPT !.active = {screenName},
                        !.currentScreen = screenName]
         ELSE [s EXCEPT !.active = {}]

\* showScreen without the cancellation on leaving the tutorial screen
showScreenKeepsTimers(s, screenName) ==
    IF screenName \in Screens
    THEN [s EXCEPT !.active = {screenName}, !.currentScreen = screenName]
    ELSE [s EXCEPT !.active = {}]

\* showScreen that also cancels the pending reorder of the round-results
\* screen when it leaves that screen
showScreenCancelsReorder(s, screenName) ==
    LET s0 == IF s.currentScreen = "roundResults"
                    /\ screenName # "roundResults"
              THEN [s EXCEPT
                        !.timers = clearTimeouts(@,
                                        {s.roundResultsReorderTimeout}),
                        !.roundResultsReorderTimeout = NoTimer]
              ELSE s
        s1 == IF s0.currentScreen = "tutorial" /\ screenName # "tutorial"
              THEN clearTutorialTimeouts(s0)
              ELSE s0
    IN  IF screenName \in Screens
        THEN [s1 EXCEPT !.active = {screenName},
                        !.currentScreen = screenName]
        ELSE [s1 EXCEPT !.active = {}]

showScreen(s, screenName) ==
    LET s1 == IF s.currentScreen = "tutorial" /\ screenName # "tutorial"
              THEN clearTutorialTimeouts(s)
              ELSE s
    IN  IF screenName \in Screens
        THEN [s1 EXCEPT !.active = {screenName},
                        !.currentScreen = screenName]
        ELSE [s1 EXCEPT !.active = {}]

(***************************************************************************)
(* Tutorial steps.                                                         *)
(***************************************************************************)
showTutorialStep(s, stepNumber) ==
    LET faded == [i \in Steps |->
                    (s.stepClass[i] \ {"active", "fade-in"})
                    \cup (IF i # stepNumber THEN {"fade-out"} ELSE {})]
    IN  tutorialTimeout([s EXCEPT !.stepClass = faded],
                        "reveal", stepNumber, 0, CrossFadeDelay)

\* the callback showTutorialStep schedules
revealStep(s, stepNumber) ==
    [s EXCEPT !.stepClass = [i \in Steps |->
                                IF i = stepNumber THEN {"active", "fade-in"}
                                ELSE {}],
              !.stepDisplay = [i \in Steps |->
                                IF i = stepNumber THEN "flex" ELSE "none"]]

VisibleSteps ==
    {i \in Steps : stepDisplay[i] = "flex" /\ "active" \in stepClass[i]}


(***************************************************************************)
(* typeText: the four reveals of step 4, by their position in the timeline.*)
(***************************************************************************)
TypeTexts == <<"Prompt 1", "Prompt 2", "A clever answer!", "A witty response!">>
TypeMsPerChar == <<60, 60, 55, 55>>

\* a typeNext() that goes on for one call after the last character
typeNextOverrun(s, which, index) ==
    IF index <= Len(TypeTexts[which])
    THEN tutorialTimeout(s, "typeNext", which, index + 1,
                         TypeMsPerChar[which])
    ELSE s

\* typeNext() of the reveal `which`, its closure variable index at `index`
typeNext(s, which, index) ==
    IF index < Len(TypeTexts[which])
    THEN tutorialTimeout(s, "typeNext", which, index + 1,
                         TypeMsPerChar[which])
    ELSE s

typeText(s, which) == typeNext(s, which, 0)

(***************************************************************************)
(* startTutorial: the timeline.  Each row is one tutorialTimeout call:     *)
(* what `t` has grown by since the previous call, the callback and its     *)
(* argument.  Sub-steps are numbered in source order: 1 prompt card 1,     *)
(* 2 prompt card 2, 3 submit button, 4 button enabled, 5 button pressed,   *)
(* 6 "Submitted!", 7 pink card, 8 "VS", 9 green card, 10 first +1 in,      *)
(* 11 first +1 out, 12 bonus text, 13 bonus +1 in, 14 bonus +1 out,        *)
(* 15 remember.                                                            *)
(***************************************************************************)
\* a timeline whose pink card comes 200ms after showTutorialStep(5), during
\* the cross-fade
TimelineEarlyCard ==
    << <<1750, "showTutorialStep", 2>>,
       <<1750, "showTutorialStep", 3>>,
       <<2000, "showTutorialStep", 4>>,
       <<2000, "substep", 1>>,
       <<200, "substep", 2>>,
       <<500, "substep", 3>>,
       <<0, "typeStart", 1>>,
       <<480 + 150, "typeStart", 2>>,
       <<480 + 150, "typeStart", 3>>,
       <<16 * 55 + 150, "typeStart", 4>>,
       <<17 * 55 + 200, "substep", 4>>,
       <<500, "substep", 5>>,
       <<500, "substep", 6>>,
       <<700 + 400, "showTutorialStep", 5>>,
       <<200, "substep", 7>>,
       <<600, "substep", 8>>,
       <<500, "substep", 9>>,
       <<2600, "showTutorialStep", 6>>,
       <<750, "substep", 10>>,
       <<1000, "substep", 11>>,
       <<500, "substep", 12>>,
       <<750, "substep", 13>>,
       <<1000, "substep", 14>>,
       <<500, "substep", 15>>,
       <<3750, "showTutorialStep", 7>>,
       <<3000, "complete", 0>> >>

Timeline ==
    << <<1750, "showTutorialStep", 2>>,
       <<1750, "showTutorialStep", 3>>,
       <<2000, "showTutorialStep", 4>>,
       <<2000, "substep", 1>>,
       <<200, "substep", 2>>,
       <<500, "substep", 3>>,
       <<0, "typeStart", 1>>,
       <<480 + 150, "typeStart", 2>>,
       <<480 + 150, "typeStart", 3>>,
       <<16 * 55 + 150, "typeStart", 4>>,
       <<17 * 55 + 200, "substep", 4>>,
       <<500, "substep", 5>>,
       <<500, "substep", 6>>,
       <<700 + 400, "showTutorialStep", 5>>,
       <<1000 + 300, "substep", 7>>,
       <<600, "substep", 8>>,
       <<500, "substep", 9>>,
       <<2600, "showTutorialStep", 6>>,
       <<750, "substep", 10>>,
       <<1000, "substep", 11>>,
       <<500, "substep", 12>>,
       <<750, "substep", 13>>,
       <<1000, "substep", 14>>,
       <<500, "substep", 15>>,
       <<3750, "showTutorialStep", 7>>,
       <<3000, "complete", 0>> >>

\* the value of `t` at each tutorialTimeout call
TimelineAt ==
    LET at[i \in 1..Len(Timeline)] ==
            IF i = 1 THEN Timeline[1][1] ELSE at[i - 1] + Timeline[i][1]
    IN  at

\* the timers of the tutorialTimeout calls of startTutorial, in source
\* order.  The calls are made in one task, so the handles are consecutive.
TimelineTimers(first) ==
    [k \in 1..Len(Timeline) |->
        [id |-> first + k - 1, due |-> TimelineAt[k],
         fn |-> Timeline[k][2], a |-> Timeline[k][3], b |-> 0,
         run |-> 0, env |-> <<>>]]

\* the timers `new`, created now in this order and due in this order, among
\* the pending timers `old`: a pending timer runs before a new one that is
\* due at the same time
RECURSIVE mergeTimers(_, _)
mergeTimers(old, new) ==
    IF old = <<>> THEN new
    ELSE IF new = <<>> THEN old
    ELSE IF old[1].due <= new[1].due
         THEN <<old[1]>> \o mergeTimers(Tail(old), new)
         ELSE LET k == Cardinality({i \in 1..Len(new) :
                                        new[i].due < old[1].due})
              IN  SubSeq(new, 1, k)
                    \o mergeTimers(old, SubSeq(new, k + 1, Len(new)))

scheduleTimeline(s) ==
    LET first == FreshId(TutorialIdBase,
                         PendingIds(s.timers) \cup s.tutorialTimeouts)
    IN  [s EXCEPT
            !.timers = mergeTimers(@, TimelineTimers(first)),
            !.tutorialTimeouts =
                @ \cup {first + k - 1 : k \in 1..Len(Timeline)}]

\* bookkeeping for the runs: a timer that is still pending when a new run
\* begins is from then on a timer of an earlier run
SupersedeRun(ts) ==
    [i \in 1..Len(ts) |->
        IF IsTutorialTimer(ts[i]) THEN [ts[i] EXCEPT !.run = 1] ELSE ts[i]]

\* startTutorial without the guard against a duplicate start
startTutorialUnguarded(s) ==
    LET s0 == [s EXCEPT !.timers = SupersedeRun(@)]
        s1 == [clearTutorialTimeouts(s0) EXCEPT !.tutorialRunning = TRUE]
        s2 == [s1 EXCEPT !.stepDisplay = [i \in Steps |-> "none"],
                         !.stepClass = [i \in Steps |-> {}]]
        s3 == showScreen(s2, "tutorial")
        s4 == [s3 EXCEPT !.stepDisplay[1] = "flex",
                         !.stepClass[1] = @ \cup {"active", "fade-in"}]
    IN  scheduleTimeline(s4)

\* startTutorial without its showScreen('tutorial')
startTutorialOffScreen(s) ==
    IF s.tutorialRunning /\ s.currentScreen = "tutorial"
    THEN s
    ELSE LET s0 == [s EXCEPT !.timers = SupersedeRun(@)]
             s1 == [clearTutorialTimeouts(s0) EXCEPT !.tutorialRunning = TRUE]
             s2 == [s1 EXCEPT !.stepDisplay = [i \in Steps |-> "none"],
                              !.stepClass = [i \in Steps |-> {}]]
             s4 == [s2 EXCEPT !.stepDisplay[1] = "flex",
                              !.stepClass[1] = @ \cup {"active", "fade-in"}]
         IN  scheduleTimeline(s4)

startTutorial(s) ==
    IF s.tutorialRunning /\ s.currentScreen = "tutorial"
    THEN s
    ELSE LET s0 == [s EXCEPT !.timers = SupersedeRun(@)]
             s1 == [clearTutorialTimeouts(s0) EXCEPT !.tutorialRunning = TRUE]
             s2 == [s1 EXCEPT !.stepDisplay = [i \in Steps |-> "none"],
                              !.stepClass = [i \in Steps |-> {}]]
             s3 == showScreen(s2, "tutorial")
             s4 == [s3 EXCEPT !.stepDisplay[1] = "flex",
                              !.stepClass[1] = @ \cup {"active", "fade-in"}]
         IN  scheduleTimeline(s4)

\* the last callback without its showScreen('loading')
completeTutorialStays(s) ==
    [s EXCEPT !.tutorialRunning = FALSE, !.status = RoundOneStatus]

\* the last callback of the timeline
completeTutorial(s) ==
    showScreen([s EXCEPT !.tutorialRunning = FALSE,
                         !.status = RoundOneStatus], "loading")


(***************************************************************************)
(* Round results: the two sort orders, the ranks and the entries.          *)
(* A player is [name, peerId, roundScore, totalScore, rank]; peerId "" is  *)
(* an absent peerId.  Sorting is on the indices of data.players, because   *)
(* both sorted arrays hold the same player objects.  An entry is one DOM   *)
(* element; its field ev counts the round_results messages handled since   *)
(* the one that created it (0: the latest).                                *)
(***************************************************************************)
NameOrder == <<"A", "B", "C", "D">>

NameIndex(name) == CHOOSE i \in 1..Len(NameOrder) : NameOrder[i] = name

\* a.localeCompare(b), for the names of NameOrder
localeCompare(a, b) == NameIndex(a) - NameIndex(b)

\* a variant that compares roundScore only
compareByRoundOnly(a, b) == b.roundScore - a.roundScore

compareByRound(a, b) ==
    IF b.roundScore # a.roundScore THEN b.roundScore - a.roundScore
    ELSE IF b.totalScore # a.totalScore THEN b.totalScore - a.totalScore
    ELSE localeCompare(a.name, b.name)

\* a variant that compares totalScore only
compareByTotalOnly(a, b) == b.totalScore - a.totalScore

compareByTotal(a, b) ==
    IF b.totalScore # a.totalScore THEN b.totalScore - a.totalScore
    ELSE IF b.roundScore # a.roundScore THEN b.roundScore - a.roundScore
    ELSE localeCompare(a.name, b.name)

\* [...players].sort(cmp), cmp being the comparator of the round order or
\* of the total order: Array.prototype.sort is stable; the result is given
\* as the sequence of the players' indices in `players`
\* the index found at each position, pos[i] being the position of index i
IndexAt(pos) == [k \in DOMAIN pos |-> CHOOSE i \in DOMAIN pos : pos[i] = k]

SortedIndices(players, byRound) ==
    LET n == Len(players)
        cmp(a, b) == IF byRound THEN compareByRound(a, b)
                     ELSE compareByTotal(a, b)
        before(j, i) == \/ cmp(players[j], players[i]) < 0
                        \/ cmp(players[j], players[i]) = 0 /\ j < i
    IN  IndexAt([i \in 1..n |->
                    1 + Cardinality({j \in 1..n : before(j, i)})])

sortedByRound(players) == SortedIndices(players, TRUE)
sortedByTotal(players) == SortedIndices(players, FALSE)

\* the forEach that assigns displayRank, by position in sortedByRound
displayRanksOf(players, order) ==
    LET r[k \in 1..Len(order)] ==
            IF k = 1 THEN 1
            ELSE IF players[order[k - 1]].roundScore
                        > players[order[k]].roundScore
                 THEN k
                 ELSE r[k - 1]
    IN  r

\* a variant that numbers the distinct scores 1, 2, 3, ... (dense ranking)
displayRanksDense(players) ==
    LET order == sortedByRound(players)
        r[k \in 1..Len(order)] ==
            IF k = 1 THEN 1
            ELSE IF players[order[k - 1]].roundScore
                        > players[order[k]].roundScore
                 THEN r[k - 1] + 1
                 ELSE r[k - 1]
    IN  r

displayRanks(players) == displayRanksOf(players, sortedByRound(players))

\* the forEach that assigns finalRank, by position in sortedByTotal
finalRanksOf(players, order) ==
    LET r[k \in 1..Len(order)] ==
            IF k = 1 THEN 1
            ELSE IF players[order[k - 1]].totalScore
                        > players[order[k]].totalScore
                 THEN k
                 ELSE r[k - 1]
    IN  r

finalRanks(players) == finalRanksOf(players, sortedByTotal(players))

\* finalPositions.get(name): the Map is keyed by player.name, a later set
\* of the same key replaces the earlier one; indices are 0-based
finalPositionOf(players, order, name) ==
    (CHOOSE k \in 1..Len(order) :
        /\ players[order[k]].name = name
        /\ \A k2 \in (k + 1)..Len(order) : players[order[k2]].name # name)
      - 1

finalPositions(players, name) ==
    finalPositionOf(players, sortedByTotal(players), name)

\* player.peerId || player.name
PlayerId(player) == IF player.peerId # "" THEN player.peerId ELSE player.name

\* createLeaderboardEntry(player, true, false) and the four data attributes
roundEntryOf(player, initialIndex, finalIndex, finalRank) ==
    [ev |-> 0,
     playerId |-> PlayerId(player),
     name |-> player.name,
     rank |-> player.rank,
     initialIndex |-> initialIndex,
     finalIndex |-> finalIndex,
     finalRank |-> finalRank,
     totalScore |-> player.totalScore,
     score |-> "round",
     transform |-> "",
     moveDistance |-> 0]

\* the entry of `player`, at position k of sortedByRound: its final index
\* is looked up by name, its final rank is that of the player at that index
roundEntryFor(player, k, finalIndex, ranks) ==
    roundEntryOf(player, k - 1, finalIndex, ranks[finalIndex + 1])

\* sortedByRound.forEach((player, index) => ...), the two orders and the
\* final ranks having been computed before the loop
roundEntriesIn(players, byRound, byTotal, ranks) ==
    [k \in 1..Len(players) |->
        roundEntryFor(players[byRound[k]], k,
                      finalPositionOf(players, byTotal,
                                      players[byRound[k]].name),
                      ranks)]

roundEntriesOver(players, byRound, byTotal) ==
    roundEntriesIn(players, byRound, byTotal,
                   finalRanksOf(players, byTotal))

roundEntries(players) ==
    roundEntriesOver(players, sortedByRound(players), sortedByTotal(players))

\* the entries the forEach over sortedByRound has appended when it
\* reaches players[at]
entriesBefore(players, at) ==
    LET byRound == sortedByRound(players)
        k == CHOOSE k \in 1..Len(players) : byRound[k] = at
    IN  SubSeq(roundEntries(players), 1, k - 1)

\* let entryHeight = 75, replaced by what the page measures as soon as
\* there is a first entry
entryHeightOf(entries, measured) ==
    IF Len(entries) >= 1 THEN measured ELSE EntryHeight

\* the forEach of the dwell callback over the displayed entries
reorderEntries(entries, entryHeight) ==
    [i \in 1..Len(entries) |->
        [entries[i] EXCEPT
            !.rank = entries[i].finalRank,
            !.score = "total",
            !.transform = "translateY",
            !.moveDistance =
                (entries[i].finalIndex - entries[i].initialIndex)
                    * entryHeight]]

\* a variant that removes the transforms and leaves the entries in place
settledEntriesInPlace(entries) ==
    [k \in 1..Len(entries) |->
        [entries[k] EXCEPT !.transform = "none", !.moveDistance = 0]]

\* entries.slice().sort by data-final-index (stable), transforms removed
settledEntries(entries) ==
    LET n == Len(entries)
        before(j, i) ==
            \/ entries[j].finalIndex < entries[i].finalIndex
            \/ entries[j].finalIndex = entries[i].finalIndex /\ j < i
        pos(i) == 1 + Cardinality({j \in 1..n : before(j, i)})
    IN  [k \in 1..n |->
            [entries[CHOOSE i \in 1..n : pos(i) = k] EXCEPT
                !.transform = "none", !.moveDistance = 0]]

\* an entry is one DOM element: the event that created it and its slot
Element(e) == <<e.ev, e.initialIndex>>
Elements(entries) == {Element(entries[i]) : i \in 1..Len(entries)}

\* leaderboard.appendChild(entry) for each entry in turn: an element that
\* is a child already moves to the end
appendAll(board, entries) ==
    SelectSeq(board, LAMBDA e : Element(e) \notin Elements(entries))
        \o entries


(***************************************************************************)
(* updateRoundResultsScreen and its two callbacks.                         *)
(***************************************************************************)
\* bookkeeping for the events: the elements a pending settle callback holds
\* are one round_results message older
Outlived(ts) ==
    [i \in 1..Len(ts) |->
        [ts[i] EXCEPT !.env = [k \in 1..Len(@) |->
                                  [@[k] EXCEPT !.ev = @ + 1]]]]

\* updateRoundResultsScreen without the clearTimeout of the dwell timer
updateRoundResultsScreenNoCancel(s, data) ==
    LET s2 == [s EXCEPT !.leaderboard = <<>>,
                        !.roundPlayers = <<>>,
                        !.timers = Outlived(@)]
        id == FreshId(ReorderIdBase, PendingIds(s2.timers))
    IN  IF ~data.wellFormed
        THEN s2
        ELSE [s2 EXCEPT
                !.leaderboard = roundEntries(data.players),
                !.roundPlayers = data.players,
                !.timers = setTimeout(@, id, "reorder", 0, 0, <<>>,
                                      DwellDelay),
                !.roundResultsReorderTimeout = id]

updateRoundResultsScreen(s, data) ==
    LET s1 == IF s.roundResultsReorderTimeout # NoTimer
              THEN [s EXCEPT
                      !.timers = clearTimeouts(@,
                                     {s.roundResultsReorderTimeout}),
                      !.roundResultsReorderTimeout = NoTimer]
              ELSE s
        s2 == [s1 EXCEPT !.leaderboard = <<>>,
                         !.roundPlayers = <<>>,
                         !.timers = Outlived(@)]
        id == FreshId(ReorderIdBase, PendingIds(s2.timers))
    IN  IF ~data.wellFormed
        THEN IF data.fault = "iconId"
             THEN \* createLeaderboardEntry throws at players[faultAt]
                  [s2 EXCEPT
                     !.leaderboard =
                        entriesBefore(data.players, data.faultAt),
                     !.roundPlayers = data.players]
             ELSE s2     \* data.players.length throws here
        ELSE [s2 EXCEPT
                !.leaderboard = roundEntries(data.players),
                !.roundPlayers = data.players,
                !.timers = setTimeout(@, id, "reorder", 0, 0, <<>>,
                                      DwellDelay),
                !.roundResultsReorderTimeout = id]

\* a dwell callback that reorders the entries at once, without the 850ms
\* of the animation
reorderCallbackSettlesAtOnce(s, measured) ==
    IF Len(s.leaderboard) = 0
    THEN s
    ELSE [s EXCEPT !.leaderboard =
            appendAll(@, settledEntries(
                reorderEntries(s.leaderboard,
                               entryHeightOf(s.leaderboard, measured))))]

\* the callback of the 3000ms timer; `measured` is what
\* getBoundingClientRect and offsetHeight give for the entries
reorderCallback(s, measured) ==
    IF Len(s.leaderboard) = 0
    THEN s
    ELSE LET entries == reorderEntries(s.leaderboard,
                            entryHeightOf(s.leaderboard, measured))
             id == FreshId(SettleIdBase, PendingIds(s.timers))
         IN  [s EXCEPT
                !.leaderboard = entries,
                !.timers = setTimeout(@, id, "settle", 0, 0, entries,
                                      SettleDelay)]

\* the callback of the 850ms timer, `entries` being its closure variable
settleCallback(s, entries) ==
    [s EXCEPT !.leaderboard = appendAll(@, settledEntries(entries))]

(***************************************************************************)
(* Messages.  A message is the text handed to handleMessage: json says     *)
(* whether JSON.parse accepts it, wellFormed whether its render function   *)
(* runs to its end.  Of a message whose render throws, fault names the     *)
(* field the render throws on:                                             *)
(*   "list"          the first list it reads is absent (players,           *)
(*                   player1Voters);                                       *)
(*   "abstainVoters" abstainVoters of matchup_results is absent;           *)
(*   "abstainIcon"   an element of abstainVoters is not a string;          *)
(*   "iconId"        players[faultAt] is the first player without iconId.  *)
(***************************************************************************)
Msg(type) ==
    [json |-> TRUE, type |-> type, roundNumber |-> 0, players |-> <<>>,
     wellFormed |-> TRUE, fault |-> "", faultAt |-> 0,
     secondsRemaining |-> 60, player1Votes |-> 0,
     player2Votes |-> 0, abstainVoters |-> 0]

Faulty(m, fault, faultAt) ==
    [m EXCEPT !.wellFormed = FALSE, !.fault = fault, !.faultAt = faultAt]

Player(name, roundScore, totalScore, rank) ==
    [name |-> name, peerId |-> "", roundScore |-> roundScore,
     totalScore |-> totalScore, rank |-> rank]

ScenarioPlayers ==
    <<Player("A", 3, 10, 2), Player("B", 3, 7, 3), Player("C", 1, 12, 1)>>

PairPlayers == <<Player("B", 1, 9, 1), Player("D", 2, 4, 2)>>

MainPayloads == {ScenarioPlayers, PairPlayers, <<>>}

MessageTypes ==
    {"lobby", "tutorial", "skip_tutorial", "loading", "loading_round",
     "round_countdown", "answering", "voting_transition", "matchup_voting",
     "matchup_results", "round_results", "game_results", "end"}

ListTypes == {"lobby", "matchup_results", "round_results", "game_results"}

Messages ==
    {[Msg("") EXCEPT !.json = FALSE], Msg("bogus"), Msg("(missing)")}
    \cup {Msg(t) : t \in MessageTypes \ {"loading_round", "round_results"}}
    \cup {[Msg("loading_round") EXCEPT !.roundNumber = n] : n \in 1..MaxRound}
    \cup {[Msg("round_results") EXCEPT !.players = p] : p \in MainPayloads}
    \cup {Faulty(Msg(t), "list", 0) : t \in ListTypes}

(***************************************************************************)
(* The render functions of the timed screens and of the two result         *)
(* screens.  Of a message the model keeps what decides classes and badges: *)
(* secondsRemaining, the two vote counts, abstainVoters.length (as         *)
(* abstainVoters) and the players' ranks.                                  *)
(***************************************************************************)
UrgencyClasses == {"warning", "critical"}

\* updateTimerStyle(element, seconds, totalSeconds), on element.classList
updateTimerStyle(classList, seconds) ==
    (classList \ UrgencyClasses)
        \cup (IF seconds <= 5 THEN {"critical"}
              ELSE IF seconds <= 10 THEN {"warning"}
              ELSE {})

updateAnsweringScreen(s, data) ==
    [s EXCEPT !.answeringTimer = updateTimerStyle(@, data.secondsRemaining)]

\* writes texts only: the timer circle of this screen is not touched
updateMatchupVotingScreen(s, data) == s

\* Math.max of the three counts
maxVotes(data) ==
    CHOOSE v \in {data.player1Votes, data.player2Votes, data.abstainVoters} :
        \A w \in {data.player1Votes, data.player2Votes, data.abstainVoters} :
            w <= v

\* the elements that carry 'winner' once updateMatchupResultsScreen is
\* done.  A voter list that is absent throws before any class is written;
\* absent abstainVoters throw at Math.max, after 'winner' has been removed
\* from the two results; an abstain icon throws after every class is
\* written
updateMatchupResultsScreen(s, data) ==
    CASE data.wellFormed \/ data.fault = "abstainIcon" ->
            [s EXCEPT !.matchupWinners =
                (IF data.player1Votes = maxVotes(data)
                 THEN {"result-1"} ELSE {})
                \cup (IF data.player2Votes = maxVotes(data)
                      THEN {"result-2"} ELSE {})
                \cup (IF data.abstainVoters > 0
                            /\ data.abstainVoters = maxVotes(data)
                      THEN {"abstain-section"} ELSE {})]
      [] data.fault = "abstainVoters" ->
            [s EXCEPT !.matchupWinners = @ \ {"result-1", "result-2"}]
      [] OTHER -> s

\* Math.min(...ranks) and Math.max(...ranks), for a list that is not empty
topRank(players) ==
    CHOOSE r \in {players[i].rank : i \in 1..Len(players)} :
        \A i \in 1..Len(players) : r <= players[i].rank

bottomRank(players) ==
    CHOOSE r \in {players[i].rank : i \in 1..Len(players)} :
        \A i \in 1..Len(players) : players[i].rank <= r

\* the badge handed to createGameResultEntry; "" is null
gameBadge(players, i) ==
    IF players[i].rank = topRank(players) THEN "winner"
    ELSE IF players[i].rank = bottomRank(players) THEN "halfwit"
    ELSE ""

\* absent players throw at the first statement; a player without iconId
\* throws in createGameResultEntry, once the board has been emptied and
\* the entries of the players before it appended
updateGameResultsScreen(s, data) ==
    CASE data.wellFormed ->
            [s EXCEPT !.gameBadges =
                [i \in 1..Len(data.players) |->
                    [rank |-> data.players[i].rank,
                     badge |-> gameBadge(data.players, i)]]]
      [] data.fault = "iconId" ->
            [s EXCEPT !.gameBadges =
                [i \in 1..(data.faultAt - 1) |->
                    [rank |-> data.players[i].rank,
                     badge |-> gameBadge(data.players, i)]]]
      [] OTHER -> s

(***************************************************************************)
(* handleMessage, after JSON.parse has succeeded.  A render function that  *)
(* throws leaves the switch, so the showScreen after it does not run.      *)
(***************************************************************************)
\* case 'skip_tutorial' without the write of the status text
skipTutorialKeepsStatus(s) ==
    showScreen(clearTutorialTimeouts(s), "loading")

\* case 'loading_round' without the guard
loadingRoundUnguarded(s, data) ==
    showScreen([s EXCEPT !.status = LoadingRoundStatus(data.roundNumber)],
               "loading")

\* case 'skip_tutorial'
skipTutorial(s) ==
    showScreen([clearTutorialTimeouts(s) EXCEPT !.status = RoundOneStatus],
               "loading")

\* case 'loading_round'
loadingRound(s, data) ==
    IF s.tutorialRunning /\ s.currentScreen = "tutorial"
    THEN s
    ELSE showScreen([s EXCEPT !.status =
                        LoadingRoundStatus(data.roundNumber)], "loading")

\* the default case with a fallback screen instead of the warning
unknownTypeShowsConnecting(s, data) == showScreen(s, "connecting")

\* default: console.warn and nothing else
unknownType(s, data) == s

\* a switch whose cases show their screen although the render threw
dispatchShowsAfterFailure(s, data) ==
    CASE data.type = "lobby" ->
            showScreen(s, "lobby")
      [] data.type = "tutorial" -> startTutorial(s)
      [] data.type = "skip_tutorial" -> skipTutorial(s)
      [] data.type = "loading" ->
            showScreen([s EXCEPT !.status = LoadingGameStatus], "loading")
      [] data.type = "loading_round" -> loadingRound(s, data)
      [] data.type = "round_countdown" -> showScreen(s, "countdown")
      [] data.type = "answering" ->
            showScreen(updateAnsweringScreen(s, data), "answering")
      [] data.type = "voting_transition" -> showScreen(s, "votingTransition")
      [] data.type = "matchup_voting" ->
            showScreen(updateMatchupVotingScreen(s, data), "matchupVoting")
      [] data.type = "matchup_results" ->
            showScreen(updateMatchupResultsScreen(s, data),
                       "matchupResults")
      [] data.type = "round_results" ->
            showScreen(updateRoundResultsScreen(s, data), "roundResults")
      [] data.type = "game_results" ->
            showScreen(updateGameResultsScreen(s, data), "gameResults")
      [] data.type = "end" -> showScreen(s, "end")
      [] OTHER -> unknownType(s, data)

dispatch(s, data) ==
    CASE data.type = "lobby" ->
            IF data.wellFormed THEN showScreen(s, "lobby") ELSE s
      [] data.type = "tutorial" -> startTutorial(s)
      [] data.type = "skip_tutorial" -> skipTutorial(s)
      [] data.type = "loading" ->
            showScreen([s EXCEPT !.status = LoadingGameStatus], "loading")
      [] data.type = "loading_round" -> loadingRound(s, data)
      [] data.type = "round_countdown" -> showScreen(s, "countdown")
      [] data.type = "answering" ->
            showScreen(updateAnsweringScreen(s, data), "answering")
      [] data.type = "voting_transition" -> showScreen(s, "votingTransition")
      [] data.type = "matchup_voting" ->
            showScreen(updateMatchupVotingScreen(s, data), "matchupVoting")
      [] data.type = "matchup_results" ->
            IF data.wellFormed
            THEN showScreen(updateMatchupResultsScreen(s, data),
                            "matchupResults")
            ELSE updateMatchupResultsScreen(s, data)
      [] data.type = "round_results" ->
            IF data.wellFormed
            THEN showScreen(updateRoundResultsScreen(s, data), "roundResults")
            ELSE updateRoundResultsScreen(s, data)
      [] data.type = "game_results" ->
            IF data.wellFormed
            THEN showScreen(updateGameResultsScreen(s, data), "gameResults")
            ELSE updateGameResultsScreen(s, data)
      [] data.type = "end" -> showScreen(s, "end")
      [] OTHER -> unknownType(s, data)

\* handleMessage whose catch block shows the end screen
handleMessageEndsOnError(s, message) ==
    IF message.json THEN dispatch(s, message) ELSE showScreen(s, "end")

handleMessage(s, message) ==
    IF message.json THEN dispatch(s, message) ELSE s

(***************************************************************************)
(* What a task found when it began.                                        *)
(***************************************************************************)
TutorialDisplayed == tutorialRunning /\ currentScreen = "tutorial"

PendingFns == {timers[i].fn : i \in 1..Len(timers)}

RRPending ==
    IF "reorder" \in PendingFns THEN "dwell"
    ELSE IF "settle" \in PendingFns THEN "settle"
    ELSE "none"

\* the last task: its kind, the message type or callback, and, where the
\* task's effect depends on it, what it found
Found(kind, type) ==
    [kind |-> kind, type |-> type,
     onTutorial |-> kind # "timer" /\ TutorialDisplayed,
     rr |-> IF type = "round_results" THEN RRPending ELSE "none"]

\* the oldest element a pending settle callback still holds
StaleHeld ==
    \E i \in 1..Len(timers) : \E k \in 1..Len(timers[i].env) :
        timers[i].env[k].ev >= MaxStale

(***************************************************************************)
(* Initial state: the script has been evaluated and initReceiver has run.  *)
(* Which screen element carries 'active' in the page is not the script's   *)
(* doing.                                                                  *)
(***************************************************************************)
Init ==
    /\ currentScreen = "connecting"
    /\ active \in {{}, {"connecting"}}
    /\ status = "(page)"   \* the text the page ships with
    /\ tutorialRunning = FALSE
    /\ tutorialTimeouts = {}
    /\ timers = <<>>
    /\ stepClass = [i \in Steps |-> {}]
    /\ stepDisplay = [i \in Steps |-> ""]
    /\ roundResultsReorderTimeout = NoTimer
    /\ leaderboard = <<>>
    /\ roundPlayers = <<>>
    /\ answeringTimer = {}
    /\ votingTimer = {}
    /\ matchupWinners = {}
    /\ gameBadges = <<>>
    /\ senders = 0
    /\ out = <<>>
    /\ last = [kind |-> "init", type |-> "", onTutorial |-> FALSE,
               rr |-> "none"]
    /\ quiet = FALSE

(***************************************************************************)
(* Tasks.  The state a task ends in is computed once and then committed.   *)
(***************************************************************************)
\* the custom message listener
Receive(m) ==
    /\ ~quiet
    /\ m.type = "round_results" => ~StaleHeld
    /\ \E s \in {handleMessage(Cur, m)} : Commit(s)
    /\ last' = Found("message", m.type)
    /\ out' = <<>>
    /\ UNCHANGED <<senders, quiet>>

\* SENDER_CONNECTED
SenderConnected ==
    /\ ~quiet
    /\ senders < MaxSenders
    /\ senders' = senders + 1
    /\ out' = <<"receiver_ready">>
    /\ last' = Found("connect", "")
    /\ Commit(Cur)
    /\ UNCHANGED quiet

\* a listener that shows the end screen whenever a sender leaves
senderDisconnectedAlwaysEnds(s, remaining) == showScreen(s, "end")

\* the SENDER_DISCONNECTED listener; `remaining` is
\* context.getSenders().length
senderDisconnected(s, remaining) ==
    IF remaining = 0 THEN showScreen(s, "end") ELSE s

\* SENDER_DISCONNECTED
SenderDisconnected ==
    /\ ~quiet
    /\ senders > 0
    /\ senders' = senders - 1
    /\ \E s \in {senderDisconnected(Cur, senders - 1)} : Commit(s)
    /\ out' = <<>>
    /\ last' = Found("disconnect", "")
    /\ UNCHANGED quiet

\* the pending timers once the first has run: its delay has elapsed
Elapsed(ts) ==
    [j \in 1..(Len(ts) - 1) |-> [ts[j + 1] EXCEPT !.due = @ - ts[1].due]]

runCallback(s, t, measured) ==
    CASE t.fn = "showTutorialStep" -> showTutorialStep(s, t.a)
      [] t.fn = "reveal" -> revealStep(s, t.a)
      [] t.fn = "substep" -> s
      [] t.fn = "typeStart" -> typeText(s, t.a)
      [] t.fn = "typeNext" -> typeNext(s, t.a, t.b)
      [] t.fn = "complete" -> completeTutorial(s)
      [] t.fn = "reorder" -> reorderCallback(s, measured)
      [] t.fn = "settle" -> settleCallback(s, t.env)

\* the host runs the callback of a timer whose delay has elapsed
TimerFires(fn) ==
    /\ Len(timers) > 0
    /\ timers[1].fn = fn
    /\ \E measured \in IF fn = "reorder" THEN EntryPitches ELSE {EntryHeight} :
         \E s \in {runCallback([Cur EXCEPT !.timers = Elapsed(timers)],
                               timers[1], measured)} : Commit(s)
    /\ last' = Found("timer", fn)
    /\ out' = <<>>
    /\ UNCHANGED <<senders, quiet>>

StepTransition == TimerFires("showTutorialStep")
StepReveal == TimerFires("reveal")
SubStep == TimerFires("substep")
TypeStart == TimerFires("typeStart")
TypeNext == TimerFires("typeNext")
TutorialComplete == TimerFires("complete")
Reorder == TimerFires("reorder")
Settle == TimerFires("settle")

TutorialTask ==
    \/ StepTransition
    \/ StepReveal
    \/ SubStep
    \/ TypeStart
    \/ TypeNext
    \/ TutorialComplete

ReorderTask ==
    \/ Reorder
    \/ Settle

\* time passes without a task: less than the next timer needs
TimePasses ==
    /\ Len(timers) > 0
    /\ TickMs < timers[1].due
    /\ timers' = [j \in 1..Len(timers) |->
                    [timers[j] EXCEPT !.due = @ - TickMs]]
    /\ UNCHANGED <<currentScreen, active, status, tutorialRunning,
                   tutorialTimeouts, stepClass, stepDisplay,
                   roundResultsReorderTimeout, leaderboard, roundPlayers,
                   answeringTimer, votingTimer, matchupWinners, gameBadges,
                   senders, out, last, quiet>>

\* the senders send nothing more and stay attached
GoQuiet ==
    /\ ~quiet
    /\ quiet' = TRUE
    /\ UNCHANGED <<currentScreen, active, status, tutorialRunning,
                   tutorialTimeouts, timers, stepClass, stepDisplay,
                   roundResultsReorderTimeout, leaderboard, roundPlayers,
                   answeringTimer, votingTimer, matchupWinners, gameBadges,
                   senders, out, last>>

(***************************************************************************)
(* Specifications.  Spec: every recognized message type, the sender events *)
(* and the timer callbacks; its round_results messages carry no players,   *)
(* so the dwell timer is set and nothing is animated.  SpecRound: the      *)
(* round-results animator alone, with every payload and with time passing  *)
(* between its tasks.  SpecLive: the tutorial under the host's guarantee   *)
(* that a timer whose delay has elapsed is run.                            *)
(***************************************************************************)
ScreenMessages ==
    {m \in Messages :
        /\ m.json /\ m.wellFormed /\ m.type \in MessageTypes
        /\ m.type = "round_results" => m.players = <<>>}

Next ==
    \/ \E m \in ScreenMessages : Receive(m)
    \/ SenderConnected
    \/ SenderDisconnected
    \/ TutorialTask
    \/ Reorder

Spec == Init /\ [][Next]_vars

RoundMessages ==
    {m \in Messages : m.type = "round_results"} \cup {Msg("lobby")}

NextRound ==
    \/ \E m \in RoundMessages : Receive(m)
    \/ ReorderTask
    \/ TimePasses

SpecRound == Init /\ [][NextRound]_vars

LiveMessages ==
    {m \in Messages :
        m.json /\ m.type \in {"tutorial", "skip_tutorial", "loading_round",
                              "lobby"} /\ m.wellFormed}

NextLive ==
    \/ \E m \in LiveMessages : Receive(m)
    \/ GoQuiet
    \/ TutorialTask

\* the host does not leave a callback whose delay has elapsed waiting
\* forever
SpecLive == Init /\ [][NextLive]_vars /\ WF_vars(TutorialTask)

\* SpecOrder: one round_results event, of any generated player list,
\* followed through its dwell and its settle.  The names of a generated
\* list are a prefix of one of three patterns: in name order, in reverse
\* name order, and with names that repeat.
NamePatterns ==
    {<<"A", "B", "C", "D">>, <<"D", "C", "B", "A">>, <<"B", "A", "B", "A">>}

Scores == 0..MaxScore

\* the players of a generated list either all lack a peerId or have
\* pairwise different ones
PeerIdPatterns ==
    {<<"", "", "", "">>, <<"p1", "p2", "p3", "p4">>}

\* the list of n players with the first n names and peerIds of a pattern
\* and the scores sc[i] = <<roundScore, totalScore>>
PlayerList(n, names, ids, sc) ==
    [i \in 1..n |->
        [name |-> names[i], peerId |-> ids[i],
         roundScore |-> sc[i][1], totalScore |-> sc[i][2],
         rank |-> i]]

RoundResults(players) == [Msg("round_results") EXCEPT !.players = players]

\* the first message the receiver gets: round_results with a list of the
\* main payloads or with a generated list
FirstMessage ==
    /\ last.kind = "init"
    /\ \/ \E p \in MainPayloads : Receive(RoundResults(p))
       \/ \E n \in 0..MaxPlayers : \E names \in NamePatterns :
            \E ids \in PeerIdPatterns : \E sc \in [1..n -> Scores \X Scores] :
                Receive(RoundResults(PlayerList(n, names, ids, sc)))

NextOrder ==
    \/ FirstMessage
    \/ ReorderTask

SpecOrder == Init /\ [][NextOrder]_vars

\* SpecRender: the messages whose render function computes a class or a
\* badge from the payload, in any order and any number of times
TimerMessages ==
    {[Msg(t) EXCEPT !.secondsRemaining = n] :
        t \in {"answering", "matchup_voting"},
        n \in (0..MaxSeconds) \cup {Msg("answering").secondsRemaining}}

MatchupMessages ==
    {[Msg("matchup_results") EXCEPT
        !.player1Votes = v1, !.player2Votes = v2, !.abstainVoters = ab] :
        v1 \in 0..MaxVotes, v2 \in 0..MaxVotes, ab \in 0..MaxVotes}

\* the players of a game_results list carry the ranks the sender computed
Ranked(ranks) ==
    [i \in 1..Len(ranks) |-> Player(NameOrder[i], 0, 0, ranks[i])]

PodiumRanks == <<1, 2, 3>>

GameLists ==
    {Ranked(PodiumRanks)}
    \cup UNION {{Ranked(ranks) : ranks \in [1..n -> 1..MaxGame]} :
                n \in 0..MaxGame}

GameMessages ==
    {[Msg("game_results") EXCEPT !.players = p] : p \in GameLists}

RenderMessages == TimerMessages \cup MatchupMessages \cup GameMessages

NextRender == \E m \in RenderMessages : Receive(m)

SpecRender == Init /\ [][NextRender]_vars

\* SpecPhase: one round_results event with players, at any moment, among
\* messages that switch to other screens and the tutorial they may start
PhaseMessages == {Msg("lobby"), Msg("tutorial"), Msg("answering")}

\* a round_results message when none with players has come before and no
\* callback of an earlier one is pending
OneRoundResults ==
    /\ roundPlayers = <<>>
    /\ RRPending = "none"
    /\ \E p \in MainPayloads : Receive(RoundResults(p))

NextPhase ==
    \/ OneRoundResults
    \/ \E m \in PhaseMessages : Receive(m)
    \/ TutorialTask
    \/ ReorderTask

SpecPhase == Init /\ [][NextPhase]_vars

\* SpecTutorial: tutorial runs that nothing interrupts.  A tutorial message
\* that arrives during a run is ignored; one that arrives after the run
\* starts the next run.
NextTutorial ==
    \/ Receive(Msg("tutorial"))
    \/ TutorialTask

SpecTutorial == Init /\ [][NextTutorial]_vars

\* SpecDrop: the messages handleMessage drops (text that is not JSON, a
\* type that is unknown or missing) among messages that start the tutorial
\* and the round-results animation
DropMessages ==
    {m \in Messages : ~m.json \/ m.type \notin MessageTypes}
    \cup {Msg("tutorial"), Msg("lobby"),
          [Msg("round_results") EXCEPT !.players = PairPlayers]}

NextDrop ==
    \/ \E m \in DropMessages : Receive(m)
    \/ TutorialTask
    \/ ReorderTask

SpecDrop == Init /\ [][NextDrop]_vars

(***************************************************************************)
(* Recognized messages whose render throws, among a tutorial and a         *)
(* round-results event.                                                    *)
(***************************************************************************)
\* a matchup result won by result-1 and the abstentions, and a final board
AbstainTieResult ==
    [Msg("matchup_results") EXCEPT
        !.player1Votes = 2, !.player2Votes = 1, !.abstainVoters = 2]

PairGameResults == [Msg("game_results") EXCEPT !.players = PairPlayers]

PairRoundResults == [Msg("round_results") EXCEPT !.players = PairPlayers]

\* the messages whose render throws: on the first list, on abstainVoters,
\* on an abstain icon, or on the iconId of a player
FaultyMessages ==
    {m \in Messages : m.json /\ ~m.wellFormed}
    \cup {Faulty(AbstainTieResult, "abstainVoters", 0),
          Faulty([AbstainTieResult EXCEPT !.player1Votes = 0],
                 "abstainIcon", 0),
          Faulty(Msg("lobby"), "iconId", 1)}
    \cup {Faulty(m, "iconId", k) :
            m \in {PairGameResults, PairRoundResults},
            k \in 1..Len(PairPlayers)}

FailMessages == FaultyMessages \cup {Msg("tutorial")}

\* a result shown before anything else
FirstResult ==
    /\ last.kind = "init"
    /\ \E m \in {AbstainTieResult, PairGameResults, PairRoundResults} :
            Receive(m)

NextFail ==
    \/ FirstResult
    \/ \E m \in FailMessages : Receive(m)
    \/ TutorialTask
    \/ ReorderTask

SpecFail == Init /\ [][NextFail]_vars

(***************************************************************************)
(* Properties of the screen registry and the tutorial, under Spec.         *)
(***************************************************************************)

\* C1: from the first showScreen on (currentScreen is 'connecting' until
\* then, and no call names that screen), between tasks exactly one of the
\* twelve screens carries 'active' and it is the one held in currentScreen.
ExactlyOneActiveScreen ==
    currentScreen # "connecting" =>
        /\ currentScreen \in Screens
        /\ Cardinality(active) = 1
        /\ active = {currentScreen}

\* the last sender has left during the tutorial and 'end' alone is active
EndActiveAfterDisconnect ==
    /\ last.kind = "disconnect"
    /\ last.onTutorial
    /\ currentScreen = "end"
    /\ active = {"end"}

\* C2: a tutorial message handled while the tutorial is running and its
\* screen is current changes nothing: the pending timers with their
\* remaining delays, the handles held, the running flag, the screen and the
\* steps shown are what they were.
DuplicateTutorialIgnored ==
    [][\A m \in ScreenMessages :
          (m.type = "tutorial" /\ TutorialDisplayed /\ Receive(m)) =>
              UNCHANGED <<timers, tutorialTimeouts, tutorialRunning,
                          currentScreen, active, stepClass, stepDisplay,
                          status>>]_vars

\* a duplicate tutorial message has been handled while step 3 was shown
DuplicateDuringStepThree ==
    /\ last.kind = "message"
    /\ last.type = "tutorial"
    /\ last.onTutorial
    /\ tutorialRunning
    /\ VisibleSteps = {3}

\* C3: every pending tutorial timer is of the latest run, and there is
\* exactly one timeline while the tutorial runs (one pending completion
\* callback) and none otherwise.
SingleTutorialRun ==
    /\ \A i \in TutorialPending(timers) : timers[i].run = 0
    /\ Cardinality({i \in TutorialPending(timers) :
                        timers[i].fn = "complete"})
          = IF tutorialRunning THEN 1 ELSE 0
    /\ ~tutorialRunning => TutorialPending(timers) = {}

\* tutorial twice in immediate succession: the timers pending are those of
\* one timeline, none of which has run
StartedTwiceAtOnce ==
    /\ last.kind = "message"
    /\ last.type = "tutorial"
    /\ last.onTutorial
    /\ timers = TimelineTimers(TutorialIdBase)

\* C4: a task that takes the current screen from tutorial to another screen
\* leaves no tutorial timer pending, and a tutorial callback runs only on
\* the tutorial screen, while the tutorial runs, and for the latest run.
LeavingTutorialCancels ==
    [][/\ (currentScreen = "tutorial" /\ currentScreen' # "tutorial") =>
              TutorialPending(timers') = {}
       /\ TutorialTask =>
              /\ currentScreen = "tutorial"
              /\ tutorialRunning
              /\ timers[1].run = 0]_vars

\* a lobby message has ended the tutorial while step 4 was typing
LobbyDuringStepFour ==
    /\ last.kind = "message"
    /\ last.type = "lobby"
    /\ last.onTutorial
    /\ currentScreen = "lobby"
    /\ stepDisplay[4] = "flex"
    /\ TutorialPending(timers) = {}

\* C5: after a skip_tutorial message, whatever it found, no tutorial timer
\* is pending, the tutorial is not running, loading is the current screen
\* and its status reads "Loading Round 1...".
SkipTutorialResets ==
    (last.kind = "message" /\ last.type = "skip_tutorial") =>
        /\ TutorialPending(timers) = {}
        /\ ~tutorialRunning
        /\ currentScreen = "loading"
        /\ active = {"loading"}
        /\ status = "Loading Round 1..."

\* skip_tutorial has been handled while step 5 of the tutorial was shown
SkippedDuringStepFive ==
    /\ last.kind = "message"
    /\ last.type = "skip_tutorial"
    /\ last.onTutorial
    /\ stepDisplay[5] = "flex"
    /\ currentScreen = "loading"

\* the status text a loading_round message of each roundNumber asks for
RoundStatusTexts ==
    <<"Loading Round 1...", "Loading Round 2...", "Loading Round 3...",
      "Loading Round 4...">>

\* C6: a loading_round message handled while the tutorial is running and
\* its screen is current changes neither the status text nor the screen nor
\* the tutorial's timers; handled in any other state it sets the status to
\* "Loading Round <roundNumber>..." and makes loading the current screen.
LoadingRoundSuppressed ==
    [][\A m \in ScreenMessages :
          (m.type = "loading_round" /\ Receive(m)) =>
              IF TutorialDisplayed
              THEN UNCHANGED <<status, currentScreen, active, timers,
                               tutorialTimeouts, tutorialRunning,
                               stepClass, stepDisplay>>
              ELSE /\ status' = RoundStatusTexts[m.roundNumber]
                   /\ currentScreen' = "loading"
                   /\ active' = {"loading"}]_vars

\* loading_round has been suppressed by a tutorial that began after an
\* earlier loading_round 2 was shown
SuppressedAfterRoundTwo ==
    /\ last.kind = "message"
    /\ last.type = "loading_round"
    /\ last.onTutorial
    /\ currentScreen = "tutorial"
    /\ tutorialRunning
    /\ status = "Loading Round 2..."

(***************************************************************************)
(* Properties of the round-results animator, under SpecRound.              *)
(***************************************************************************)
DwellTimers == {i \in 1..Len(timers) : timers[i].fn = "reorder"}

\* C7: at most one dwell timer is pending and it is the one held in
\* roundResultsReorderTimeout, and the dwell timer pending once a
\* round_results message with players has been handled is the new one, due
\* in 3000ms: the timer of the event before it is gone and never runs.
SupersededDwellCanceled ==
    /\ [](/\ Cardinality(DwellTimers) <= 1
          /\ \A i \in DwellTimers :
                timers[i].id = roundResultsReorderTimeout)
    /\ [][\A m \in RoundMessages :
             (m.type = "round_results" /\ m.wellFormed /\ Receive(m)) =>
                 /\ Cardinality({i \in 1..Len(timers') :
                                    timers'[i].fn = "reorder"}) = 1
                 /\ \A i \in 1..Len(timers') :
                        timers'[i].fn = "reorder" =>
                            timers'[i].due = DwellDelay]_vars

\* round_results has arrived 2000ms into the dwell of the event before it,
\* and a full dwell is pending again
DwellRestarted ==
    /\ last.kind = "message"
    /\ last.type = "round_results"
    /\ last.rr = "dwell"
    /\ roundPlayers = PairPlayers
    /\ Cardinality(DwellTimers) = 1
    /\ \A i \in DwellTimers : timers[i].due = DwellDelay

\* C8: the settle callback of an event never runs once a later
\* round_results message has been handled: the entries a settle callback
\* re-appends are those of the latest event.
SupersededSettleNeverRuns ==
    [][Settle => \A k \in 1..Len(timers[1].env) :
                    timers[1].env[k].ev = 0]_vars

\* C9: the leaderboard holds exactly one entry for each player of the
\* latest round_results message and no entry of an earlier one.
LeaderboardOfLatestEvent ==
    /\ \A i \in 1..Len(leaderboard) : leaderboard[i].ev = 0
    /\ Len(leaderboard) = Len(roundPlayers)
    /\ \A p \in 1..Len(roundPlayers) :
          Cardinality({i \in 1..Len(leaderboard) :
                          leaderboard[i].playerId
                              = PlayerId(roundPlayers[p])}) = 1

(***************************************************************************)
(* Termination of the tutorial, under SpecLive.                            *)
(***************************************************************************)

\* C10: the completion callback runs when no other tutorial timer is
\* pending, and a tutorial that is running when the senders go silent
\* completes: the tutorial is then not running, no tutorial timer is
\* pending and loading is current with status "Loading Round 1...".
TutorialRunsToCompletion ==
    /\ [][TutorialComplete => TutorialPending(timers) = {1}]_vars
    /\ [](quiet /\ tutorialRunning =>
            <>(/\ last.kind = "timer"
               /\ last.type = "complete"
               /\ ~tutorialRunning
               /\ TutorialPending(timers) = {}
               /\ currentScreen = "loading"
               /\ active = {"loading"}
               /\ status = "Loading Round 1..."))

\* the senders went silent during the tutorial and its last callback has run
CompletedInSilence ==
    /\ quiet
    /\ last.kind = "timer"
    /\ last.type = "complete"
    /\ currentScreen = "loading"
    /\ stepDisplay[7] = "flex"

(***************************************************************************)
(* Cancellation, dropped messages and the screen each message selects.     *)
(***************************************************************************)

\* C11: clearTutorialTimeouts, called in any reachable state, leaves no
\* tutorial timer pending, whichever call scheduled it (the timeline, a
\* cross-fade, a typewriter character), and leaves every other timer alone;
\* called when no tutorial timer is pending it changes nothing but the
\* running flag, which is then false.
CancelAllCancelsEverything ==
    /\ TutorialPending(clearTutorialTimeouts(Cur).timers) = {}
    /\ clearTutorialTimeouts(Cur).timers
          = SelectSeq(timers, LAMBDA t : ~IsTutorialTimer(t))
    /\ TutorialPending(timers) = {} =>
          clearTutorialTimeouts(Cur) = [Cur EXCEPT !.tutorialRunning = FALSE]
    /\ (last.kind = "message" /\ last.type = "skip_tutorial") =>
          TutorialPending(timers) = {} /\ tutorialTimeouts = {}

\* a typewriter timer, scheduled from inside a callback, is pending next to
\* the timers of the timeline, and clearTutorialTimeouts cancels them all
CancelWhileTyping ==
    /\ "typeNext" \in PendingFns
    /\ "complete" \in PendingFns
    /\ tutorialRunning
    /\ TutorialPending(clearTutorialTimeouts(Cur).timers) = {}

\* C12: a message text that JSON.parse rejects is dropped: handling it
\* changes neither the screen nor the tutorial's flag and timers nor the
\* round-results timers nor anything shown, and nothing is sent.
InvalidJsonDropped ==
    [][\A m \in DropMessages :
          (~m.json /\ Receive(m)) =>
              /\ UNCHANGED <<currentScreen, active, status, tutorialRunning,
                             tutorialTimeouts, timers, stepClass,
                             stepDisplay, roundResultsReorderTimeout,
                             leaderboard, roundPlayers, answeringTimer,
                             votingTimer, matchupWinners, gameBadges>>
              /\ out' = <<>>]_vars

\* text that is not JSON has been handled during step 2 of the tutorial,
\* with the settle timer of a round-results event pending
InvalidJsonDuringTutorial ==
    /\ last.kind = "message"
    /\ last.type = ""
    /\ last.onTutorial
    /\ VisibleSteps = {2}
    /\ "settle" \in PendingFns

\* C13: a message that parses and whose type is none of the thirteen, or is
\* missing, has no side effect: screen, content, tutorial flag and timers
\* and round-results timers are what they were.
UnknownTypeDropped ==
    [][\A m \in DropMessages :
          (m.json /\ m.type \notin MessageTypes /\ Receive(m)) =>
              UNCHANGED <<currentScreen, active, status, tutorialRunning,
                          tutorialTimeouts, timers, stepClass, stepDisplay,
                          roundResultsReorderTimeout, leaderboard,
                          roundPlayers, answeringTimer, votingTimer,
                          matchupWinners, gameBadges>>]_vars

\* a message without a type has been handled on the round-results screen
\* while the dwell timer was pending
MissingTypeDuringDwell ==
    /\ last.kind = "message"
    /\ last.type = "(missing)"
    /\ currentScreen = "roundResults"
    /\ "reorder" \in PendingFns
    /\ Len(leaderboard) = 2

\* the screen each message type selects
ScreenOfType ==
    [t \in MessageTypes |->
        CASE t = "lobby" -> "lobby"
          [] t = "tutorial" -> "tutorial"
          [] t \in {"skip_tutorial", "loading", "loading_round"} -> "loading"
          [] t = "round_countdown" -> "countdown"
          [] t = "answering" -> "answering"
          [] t = "voting_transition" -> "votingTransition"
          [] t = "matchup_voting" -> "matchupVoting"
          [] t = "matchup_results" -> "matchupResults"
          [] t = "round_results" -> "roundResults"
          [] t = "game_results" -> "gameResults"
          [] t = "end" -> "end"]

\* C14: a well-formed message of a recognized type that is not suppressed
\* (tutorial or loading_round while the tutorial runs and is displayed)
\* makes the screen of its type the current and only active screen,
\* whatever screen was current before.
MessageSelectsItsScreen ==
    [][\A m \in ScreenMessages :
          (/\ last'.kind = "message"
           /\ last'.type = m.type
           /\ ~(m.type \in {"tutorial", "loading_round"}
                    /\ TutorialDisplayed)
           /\ Receive(m)) =>
              /\ currentScreen' = ScreenOfType[m.type]
              /\ active' = {ScreenOfType[m.type]}]_vars

\* game_results has arrived during step 6 of the tutorial and its screen
\* is current
GameResultsDuringTutorial ==
    /\ last.kind = "message"
    /\ last.type = "game_results"
    /\ last.onTutorial
    /\ stepDisplay[6] = "flex"
    /\ currentScreen = "gameResults"
    /\ active = {"gameResults"}

(***************************************************************************)
(* Properties of the two orders of a round_results list, under SpecOrder.  *)
(***************************************************************************)
\* the values of one score, in the order of a sorted sequence of indices
RoundScoresIn(players, order) ==
    [k \in 1..Len(order) |-> players[order[k]].roundScore]

TotalScoresIn(players, order) ==
    [k \in 1..Len(order) |-> players[order[k]].totalScore]

\* competition ranking of a sequence of scores: equal scores share a rank,
\* a greater score has a smaller rank, and a rank is the 1-based position
\* of the first occurrence of its score
CompetitionRanked(scores, ranks) ==
    /\ DOMAIN ranks = DOMAIN scores
    /\ \A k \in DOMAIN scores : \A l \in DOMAIN scores :
        /\ scores[k] = scores[l] => ranks[k] = ranks[l]
        /\ scores[k] > scores[l] => ranks[k] < ranks[l]
    /\ \A k \in DOMAIN scores :
        /\ ranks[k] \in DOMAIN scores
        /\ scores[ranks[k]] = scores[k]
        /\ \A l \in 1..(ranks[k] - 1) : scores[l] # scores[k]

\* C15: for every round_results player list, the display ranks over the
\* round order are competition ranks on roundScore: equal roundScore gives
\* equal displayRank, a strictly greater roundScore a strictly smaller
\* displayRank, and each displayRank is the 1-based position in the round
\* order of the first player with that roundScore; round scores 3,3,1 (the
\* shape of 5,5,3) give ranks 1,1,3
RoundRanksAreCompetitionRanks ==
    /\ CompetitionRanked(
            RoundScoresIn(roundPlayers, sortedByRound(roundPlayers)),
            displayRanks(roundPlayers))
    /\ roundPlayers = ScenarioPlayers
        => displayRanks(roundPlayers) = <<1, 1, 3>>

\* a generated list of three players, two tied on the best round score
RoundTieThenGap ==
    /\ last.kind = "message" /\ last.type = "round_results"
    /\ roundPlayers # ScenarioPlayers
    /\ displayRanks(roundPlayers) = <<1, 1, 3>>

\* player a comes before player b in the total order: by totalScore
\* descending, then roundScore descending, then name ascending; players
\* equal on all three keys come in the order of their payload indices i, j
TotalBefore(a, i, b, j) ==
    \/ a.totalScore > b.totalScore
    \/ /\ a.totalScore = b.totalScore
       /\ \/ a.roundScore > b.roundScore
          \/ /\ a.roundScore = b.roundScore
             /\ \/ NameIndex(a.name) < NameIndex(b.name)
                \/ a.name = b.name /\ i < j

TotalOrdered(players, order) ==
    /\ DOMAIN order = DOMAIN players
    /\ {order[k] : k \in DOMAIN order} = DOMAIN players
    /\ \A k \in DOMAIN order : \A l \in DOMAIN order :
        k < l => TotalBefore(players[order[k]], order[k],
                             players[order[l]], order[l])

\* C16: for every round_results player list, the total order is sorted by
\* totalScore descending, ties broken by roundScore descending, then by
\* name ascending, players equal on all three keys keeping their payload
\* order; the final ranks are competition ranks on totalScore alone, so
\* players with equal totalScore share a final rank
TotalOrderTieBreaks ==
    /\ TotalOrdered(roundPlayers, sortedByTotal(roundPlayers))
    /\ CompetitionRanked(
            TotalScoresIn(roundPlayers, sortedByTotal(roundPlayers)),
            finalRanks(roundPlayers))

\* two players tied on totalScore whom the roundScore tie-break puts in the
\* reverse of their payload order, sharing final rank 1
TotalTieBrokenByRound ==
    /\ last.kind = "message" /\ last.type = "round_results"
    /\ Len(roundPlayers) = 2
    /\ roundPlayers[1].totalScore = roundPlayers[2].totalScore
    /\ roundPlayers[1].roundScore < roundPlayers[2].roundScore
    /\ sortedByTotal(roundPlayers) = <<2, 1>>
    /\ finalRanks(roundPlayers) = <<1, 1>>

\* the settle callback of the round_results message has just run
SettleHasRun == last.kind = "timer" /\ last.type = "settle"

DistinctNames(players) ==
    \A i \in DOMAIN players : \A j \in DOMAIN players :
        players[i].name = players[j].name => i = j

\* the displayed names and rank badges, top to bottom
ShownNames == [k \in 1..Len(leaderboard) |-> leaderboard[k].name]
ShownRanks == [k \in 1..Len(leaderboard) |-> leaderboard[k].rank]

NamesIn(players, order) == [k \in 1..Len(order) |-> players[order[k]].name]

\* C17: for a round_results payload with at least one player and pairwise
\* distinct names, the reorder runs 3000ms after the message and the settle
\* 850ms after the reorder, and once the settle has run (no round_results
\* in between) the displayed entries are exactly the total order and each
\* rank badge shows the player's final rank; A(3,10), B(3,7), C(1,12) end
\* as C,A,B with badges 1,2,3
SettledShowsTotalOrder ==
    /\ \A i \in 1..Len(timers) :
        /\ timers[i].fn = "reorder" => timers[i].due = DwellDelay
        /\ timers[i].fn = "settle" => timers[i].due = SettleDelay
    /\ (SettleHasRun /\ Len(roundPlayers) >= 1 /\ DistinctNames(roundPlayers))
        => /\ ShownNames = NamesIn(roundPlayers, sortedByTotal(roundPlayers))
           /\ ShownRanks = finalRanks(roundPlayers)
    /\ (SettleHasRun /\ roundPlayers = ScenarioPlayers)
        => /\ ShownNames = <<"C", "A", "B">>
           /\ ShownRanks = <<1, 2, 3>>

\* the scenario list, settled into a display order that differs from both
\* its payload order and its round order
ScenarioSettled ==
    /\ SettleHasRun
    /\ roundPlayers = ScenarioPlayers
    /\ ShownNames = <<"C", "A", "B">>
    /\ NamesIn(roundPlayers, sortedByRound(roundPlayers)) = <<"A", "B", "C">>

(***************************************************************************)
(* Properties of the classes and badges computed from a payload, under     *)
(* SpecRender.                                                             *)
(***************************************************************************)
\* max(player1Votes, player2Votes, abstain count)
VoteMaximum(m) ==
    IF m.player1Votes >= m.player2Votes /\ m.player1Votes >= m.abstainVoters
    THEN m.player1Votes
    ELSE IF m.player2Votes >= m.abstainVoters THEN m.player2Votes
    ELSE m.abstainVoters

MarkedByMaximum(m, winners) ==
    /\ "result-1" \in winners <=> m.player1Votes = VoteMaximum(m)
    /\ "result-2" \in winners <=> m.player2Votes = VoteMaximum(m)
    /\ "abstain-section" \in winners <=> m.abstainVoters = VoteMaximum(m)

\* C18: after every matchup_results message, side 1 is marked winner
\* exactly when player1Votes equals max(player1Votes, player2Votes, abstain
\* count), side 2 exactly when player2Votes equals it, and the abstain
\* group exactly when the abstain count equals it; 3, 3 and one abstain
\* marks both players and not the abstain group
WinnersAreTheMaxima ==
    [][\A m \in MatchupMessages :
        (/\ last'.kind = "message"
         /\ last'.type = "matchup_results"
         /\ Receive(m))
        => /\ MarkedByMaximum(m, matchupWinners')
           /\ (m.player1Votes = 3 /\ m.player2Votes = 3
                    /\ m.abstainVoters = 1)
               => matchupWinners' = {"result-1", "result-2"}]_vars

\* the badges an entry of the game-results leaderboard shows
BadgesOf(entry) == IF entry.badge = "" THEN {} ELSE {entry.badge}

ShownRankSet == {gameBadges[i].rank : i \in 1..Len(gameBadges)}

\* C19: in every game_results leaderboard, every player whose rank is the
\* minimum rank of the list has the winner badge, every player whose rank
\* is the maximum rank of the list has the last-place badge, and a player
\* has both badges only when the list has a single player
BadgesForBestAndWorst ==
    \A i \in 1..Len(gameBadges) :
        /\ (\A r \in ShownRankSet : gameBadges[i].rank <= r)
            => "winner" \in BadgesOf(gameBadges[i])
        /\ (\A r \in ShownRankSet : r <= gameBadges[i].rank)
            => "halfwit" \in BadgesOf(gameBadges[i])
        /\ {"winner", "halfwit"} \subseteq BadgesOf(gameBadges[i])
            => Len(gameBadges) = 1

\* the urgency the shared rule assigns to a remaining time
UrgencyOf(seconds) ==
    IF seconds <= 5 THEN {"critical"}
    ELSE IF seconds <= 10 THEN {"warning"}
    ELSE {}

\* the urgency classes on the timer circle of the screen of message type t
TimerUrgency(s, t) ==
    (IF t = "answering" THEN s.answeringTimer ELSE s.votingTimer)
        \cap UrgencyClasses

\* C20: after every answering message and after every matchup_voting
\* message the urgency of that screen's timer is a function of the
\* message's secondsRemaining alone (critical up to 5, warning above 5 and
\* up to 10, neutral otherwise), whatever an earlier message had set, and
\* handling the same message again leaves it unchanged
TimerUrgencyFollowsSeconds ==
    [][\A m \in TimerMessages :
        (/\ last'.kind = "message"
         /\ last'.type = m.type
         /\ Receive(m))
        => /\ IF m.type = "answering"
              THEN answeringTimer' \cap UrgencyClasses
                        = UrgencyOf(m.secondsRemaining)
              ELSE votingTimer' \cap UrgencyClasses
                        = UrgencyOf(m.secondsRemaining)
           /\ TimerUrgency(handleMessage(handleMessage(Cur, m), m), m.type)
                = TimerUrgency(handleMessage(Cur, m), m.type)]_vars

(***************************************************************************)
(* Properties of the sender events, under Spec.                            *)
(***************************************************************************)
\* C21: when a sender disconnects and no sender remains, the current
\* screen becomes end, a running tutorial is canceled (flag down, no
\* tutorial timer pending) and nothing is sent; when a sender disconnects
\* and another remains, the current screen and all timer state stay as
\* they were
LastSenderEndsTheShow ==
    [][(last'.kind = "disconnect" /\ SenderDisconnected)
        => /\ out' = <<>>
           /\ IF senders' = 0
              THEN /\ currentScreen' = "end"
                   /\ active' = {"end"}
                   /\ ~tutorialRunning'
                   /\ tutorialTimeouts' = {}
                   /\ TutorialPending(timers') = {}
              ELSE UNCHANGED <<currentScreen, active, tutorialRunning,
                               tutorialTimeouts, timers,
                               roundResultsReorderTimeout, stepClass,
                               stepDisplay>>]_vars

\* the last sender has left while the tutorial was on screen
LastSenderLeftTutorial ==
    /\ last.kind = "disconnect"
    /\ last.onTutorial
    /\ senders = 0
    /\ currentScreen = "end"

(***************************************************************************)
(* Properties of the phases of one round_results event, under SpecPhase.   *)
(***************************************************************************)
\* the phase of the round-results animation of an event with players
RoundPhase ==
    IF Len(roundPlayers) = 0 THEN "Idle"
    ELSE IF "reorder" \in PendingFns THEN "ShowingByRound"
    ELSE IF "settle" \in PendingFns THEN "Reordering"
    ELSE "ShowingByTotal"

PhaseOrder ==
    {<<"Idle", "ShowingByRound">>, <<"ShowingByRound", "Reordering">>,
     <<"Reordering", "ShowingByTotal">>}

\* the remaining delay of the pending timer with callback fn
DueOf(ts, fn) ==
    {ts[i].due : i \in {j \in 1..Len(ts) : ts[j].fn = fn}}

AscendingFinalIndex(entries) ==
    \A k \in 1..(Len(entries) - 1) :
        entries[k].finalIndex <= entries[k + 1].finalIndex

\* C22: with no further round_results message, an event with at least one
\* player goes from ShowingByRound to Reordering, by the callback set
\* 3000ms after the message, and from Reordering to ShowingByTotal, by the
\* callback set 850ms after Reordering began; no phase is skipped or
\* entered twice; in ShowingByTotal every transform is discarded and the
\* entries are in ascending final-index order
PhasesInOrder ==
    [][/\ RoundPhase' # RoundPhase
            => /\ <<RoundPhase, RoundPhase'>> \in PhaseOrder
               /\ RoundPhase' = "ShowingByRound"
                    => /\ last'.kind = "message"
                       /\ DueOf(timers', "reorder") = {DwellDelay}
               /\ RoundPhase' = "Reordering"
                    => /\ last'.kind = "timer" /\ last'.type = "reorder"
                       /\ timers[1].fn = "reorder"
                       /\ DueOf(timers', "settle") = {SettleDelay}
                       /\ \A k \in 1..Len(leaderboard') :
                            leaderboard'[k].transform = "translateY"
               /\ RoundPhase' = "ShowingByTotal"
                    => /\ last'.kind = "timer" /\ last'.type = "settle"
                       /\ timers[1].fn = "settle"
       /\ RoundPhase' = "ShowingByTotal"
            => /\ Len(leaderboard') = Len(roundPlayers')
               /\ \A k \in 1..Len(leaderboard') :
                    leaderboard'[k].transform = "none"
               /\ AscendingFinalIndex(leaderboard')]_vars

\* the scenario list has reached ShowingByTotal after the screen had been
\* switched away
SettledOffScreen ==
    /\ RoundPhase = "ShowingByTotal"
    /\ roundPlayers = ScenarioPlayers
    /\ currentScreen # "roundResults"
    /\ leaderboard[1].initialIndex # 0

(***************************************************************************)
(* Properties of the stamped indices and the shown ranks, under SpecOrder. *)
(***************************************************************************)
DistinctIds(players) ==
    \A i \in DOMAIN players : \A j \in DOMAIN players :
        PlayerId(players[i]) = PlayerId(players[j]) => i = j

\* the 0-based index in the total order of the player with identity id
OwnFinalIndex(players, order, id) ==
    (CHOOSE k \in DOMAIN order : PlayerId(players[order[k]]) = id) - 1

RECURSIVE SlotDisplacements(_)
SlotDisplacements(entries) ==
    IF entries = <<>> THEN 0
    ELSE (Head(entries).finalIndex - Head(entries).initialIndex)
            + SlotDisplacements(Tail(entries))

StampedOwnIndex(players, order, entries) ==
    /\ Len(entries) = Len(players)
    /\ \A k \in DOMAIN entries :
        entries[k].finalIndex = OwnFinalIndex(players, order,
                                              entries[k].playerId)
    /\ {entries[k].finalIndex : k \in DOMAIN entries}
            = 0..(Len(players) - 1)
    /\ SlotDisplacements(entries) = 0

\* C23: for every round_results player list whose players have pairwise
\* distinct identities (peerId, or name without a peerId), the final index
\* stamped on each entry is that player's own index in the total order, so
\* the final indices are a permutation of 0..n-1 and the displacements
\* finalIndex - initialIndex sum to zero, also when two players with
\* different peerIds share a name
FinalIndexIsOwnIndex ==
    DistinctIds(roundPlayers)
        => StampedOwnIndex(roundPlayers, sortedByTotal(roundPlayers),
                           leaderboard)

\* the dwell of the latest round_results event: its 3000ms timer is pending
InDwell == "reorder" \in PendingFns

\* the entries shown are the players of `order`, top to bottom
ShownInOrder(players, order) ==
    /\ Len(leaderboard) = Len(order)
    /\ \A k \in DOMAIN order :
        /\ leaderboard[k].playerId = PlayerId(players[order[k]])
        /\ leaderboard[k].initialIndex = k - 1

\* sorted by roundScore descending, equal roundScore in payload order
RoundScoreOnlyOrdered(players, order) ==
    \A k \in DOMAIN order : \A l \in DOMAIN order :
        k < l => \/ players[order[k]].roundScore > players[order[l]].roundScore
                 \/ /\ players[order[k]].roundScore
                            = players[order[l]].roundScore
                    /\ order[k] < order[l]

\* C24 (as claimed): the round order shown during the dwell is a stable
\* sort of the payload's players by roundScore descending only: players
\* with equal roundScore appear in their payload order, whatever their
\* totalScore and name
RoundOrderKeepsPayloadOrder ==
    InDwell
        => /\ ShownInOrder(roundPlayers, sortedByRound(roundPlayers))
           /\ RoundScoreOnlyOrdered(roundPlayers, sortedByRound(roundPlayers))

\* player a comes before player b in the round order: by roundScore
\* descending, then totalScore descending, then name ascending; players
\* equal on all three keys come in the order of their payload indices i, j
RoundBefore(a, i, b, j) ==
    \/ a.roundScore > b.roundScore
    \/ /\ a.roundScore = b.roundScore
       /\ \/ a.totalScore > b.totalScore
          \/ /\ a.totalScore = b.totalScore
             /\ \/ NameIndex(a.name) < NameIndex(b.name)
                \/ a.name = b.name /\ i < j

RoundOrdered(players, order) ==
    /\ DOMAIN order = DOMAIN players
    /\ {order[k] : k \in DOMAIN order} = DOMAIN players
    /\ \A k \in DOMAIN order : \A l \in DOMAIN order :
        k < l => RoundBefore(players[order[k]], order[k],
                             players[order[l]], order[l])

\* C24 (amended): the round order shown during the dwell is the payload's
\* players sorted by roundScore descending, ties broken by totalScore
\* descending, then by name ascending; only players equal on all three
\* keys keep their payload order
RoundOrderTieBreaks ==
    InDwell
        => /\ ShownInOrder(roundPlayers, sortedByRound(roundPlayers))
           /\ RoundOrdered(roundPlayers, sortedByRound(roundPlayers))

\* two players tied on roundScore are shown in the reverse of their payload
\* order, the second having the greater totalScore
RoundTieBrokenByTotal ==
    /\ InDwell
    /\ Len(roundPlayers) = 2
    /\ roundPlayers[1].roundScore = roundPlayers[2].roundScore
    /\ roundPlayers[1].totalScore < roundPlayers[2].totalScore
    /\ leaderboard[1].playerId = PlayerId(roundPlayers[2])
    /\ leaderboard[2].playerId = PlayerId(roundPlayers[1])

\* C25: during the ShowingByRound phase the rank shown on each entry is
\* the player's initial display rank, the competition rank computed from
\* roundScore over the round order (1, 1, 3 for the round scores 3, 3, 1 of
\* A, B, C), and it is replaced by the final rank only when the Reordering
\* phase starts
ShownRankIsDisplayRank ==
    [][/\ InDwell' => ShownRanks' = displayRanks(roundPlayers')
       /\ (InDwell' /\ roundPlayers' = ScenarioPlayers)
            => ShownRanks' = <<1, 1, 3>>
       /\ ShownRanks' # ShownRanks
            => \/ last'.kind = "message"
               \/ last'.kind = "timer" /\ last'.type = "reorder"]_vars

(***************************************************************************)
(* Properties of an uninterrupted tutorial run, under SpecTutorial.        *)
(***************************************************************************)
\* the steps whose element is laid out (style.display is 'flex')
DisplayedSteps == {i \in Steps : stepDisplay[i] = "flex"}

\* the step a sub-step action belongs to, by the section of startTutorial
\* that schedules it
StepOfTimer(t) ==
    IF t.fn \in {"typeStart", "typeNext"} THEN 4
    ELSE IF t.a <= 6 THEN 4
    ELSE IF t.a <= 9 THEN 5
    ELSE 6

SubStepFns == {"substep", "typeStart", "typeNext"}

\* a timer callback has just run; it was the first of the pending timers
TimerRan(fn) == last'.kind = "timer" /\ last'.type = fn

\* C26: in an uninterrupted tutorial run the steps become visible in the
\* order 1, 2, ..., 7, each once; a transition to step k >= 2 first fades
\* out the current step and reveals step k 300ms later with every other
\* step hidden, so at most one step is visible at any time; no sub-step
\* action of step k runs before step k has been revealed
StepsInOrder ==
    [][/\ Cardinality(VisibleSteps') <= 1
       /\ (last'.kind = "message" /\ ~last'.onTutorial)
            => VisibleSteps' = {1} /\ DisplayedSteps' = {1}
       /\ TimerRan("showTutorialStep")
            => /\ VisibleSteps = {timers[1].a - 1}
               /\ VisibleSteps' = {}
               /\ \A i \in Steps \ {timers[1].a} : "fade-out" \in stepClass'[i]
               /\ {<<timers'[i].a, timers'[i].due>> :
                        i \in {j \in 1..Len(timers') : timers'[j].fn = "reveal"}}
                    = {<<timers[1].a, CrossFadeDelay>>}
       /\ TimerRan("reveal")
            => /\ DisplayedSteps = {timers[1].a - 1}
               /\ VisibleSteps' = {timers[1].a}
               /\ DisplayedSteps' = {timers[1].a}
       /\ (last'.kind = "timer" /\ last'.type \in SubStepFns)
            => VisibleSteps = {StepOfTimer(timers[1])}
       /\ TimerRan("complete")
            => VisibleSteps = {7} /\ TutorialPending(timers') = {}
       /\ (VisibleSteps' # VisibleSteps \/ DisplayedSteps' # DisplayedSteps)
            => \/ last'.kind = "message" /\ ~last'.onTutorial
               \/ TimerRan("showTutorialStep")
               \/ TimerRan("reveal")]_vars

\* the run has reached its last callback with step 7 on display
CompletedAfterStepSeven ==
    /\ last.kind = "timer" /\ last.type = "complete"
    /\ DisplayedSteps = {7}
    /\ currentScreen = "loading"

\* the pending typeNext calls: reveal, characters appended so far, delay
PendingTypeNext(ts) ==
    {<<ts[i].a, ts[i].b, ts[i].due>> :
        i \in {j \in 1..Len(ts) : ts[j].fn = "typeNext"}}

\* the reveals whose typeText call is still to come
PendingTypeStart(ts) ==
    {ts[i].a : i \in {j \in 1..Len(ts) : ts[j].fn = "typeStart"}}

\* C27: in an uninterrupted tutorial run the four typewriter reveals of
\* step 4 never overlap: a reveal appends its characters one at a time, in
\* string order, at its per-character interval; the reveals start in the
\* order 1, 2, 3, 4 and each starts only after the one before has appended
\* its last character and made its last call; no call of typeText passes a
\* continuation, so none runs
TypeRevealsInSequence ==
    [][/\ Cardinality(PendingTypeNext(timers')) <= 1
       /\ TimerRan("typeStart")
            => /\ PendingTypeNext(timers) = {}
               /\ PendingTypeStart(timers) = timers[1].a..Len(TypeTexts)
               /\ timers[1].b = 0
       /\ (last'.kind = "timer" /\ last'.type \in {"typeStart", "typeNext"})
            => IF timers[1].b < Len(TypeTexts[timers[1].a])
               THEN PendingTypeNext(timers')
                        = {<<timers[1].a, timers[1].b + 1,
                             TypeMsPerChar[timers[1].a]>>}
               ELSE PendingTypeNext(timers') = {}
       /\ PendingTypeNext(timers') # PendingTypeNext(timers)
            => /\ last'.kind = "timer"
               /\ \/ last'.type \in {"typeStart", "typeNext"}
                  \/ PendingTypeNext(timers') =
                        {<<x[1], x[2], x[3] - timers[1].due>> :
                            x \in PendingTypeNext(timers)}]_vars

\* the fourth reveal has made its last call, after its last character
FourthRevealDone ==
    /\ last.kind = "timer" /\ last.type = "typeNext"
    /\ PendingTypeNext(timers) = {}
    /\ PendingTypeStart(timers) = {}
    /\ VisibleSteps = {4}
    /\ tutorialRunning

(***************************************************************************)
(* Invariants of the tutorial's bookkeeping, under Spec.                   *)
(***************************************************************************)
\* the handles of the pending timers with callback fn
PendingIdsOf(fn) ==
    {timers[i].id : i \in {j \in 1..Len(timers) : timers[j].fn = fn}}

\* C28: in every state between two tasks, the tutorial being marked
\* running implies that tutorial is the current screen and that the run's
\* completion timer is pending, and a pending tutorial timer implies that
\* the tutorial is marked running; so no tutorial message finds the
\* tutorial running while another screen is current
RunningMeansOnTutorial ==
    /\ tutorialRunning
        => /\ currentScreen = "tutorial"
           /\ Cardinality(PendingIdsOf("complete")) = 1
           /\ PendingIdsOf("complete") \subseteq tutorialTimeouts
    /\ TutorialPending(timers) # {} => tutorialRunning
    /\ (last.kind = "message" /\ last.type = "tutorial" /\ ~last.onTutorial)
        => tutorialRunning /\ Len(timers) >= Len(Timeline)

\* a second sender has attached while a cross-fade of the run was pending
ConnectedDuringCrossFade ==
    /\ tutorialRunning
    /\ last.kind = "connect"
    /\ senders = 2
    /\ "reveal" \in PendingFns
    /\ "complete" \in PendingFns

(***************************************************************************)
(* Frame of the round-results callbacks, under SpecPhase.                  *)
(***************************************************************************)
\* the pending tutorial timers, by handle, callback and arguments
TutorialTimersOf(ts) ==
    {<<ts[i].id, ts[i].fn, ts[i].a, ts[i].b>> : i \in TutorialPending(ts)}

\* the pending round-results timers, with their remaining delays
RoundTimersOf(ts) ==
    {<<ts[i].id, ts[i].fn, ts[i].due, ts[i].env>> :
        i \in {j \in 1..Len(ts) : ts[j].fn \in {"reorder", "settle"}}}

\* C29: the dwell and settle callbacks of round results change neither the
\* current screen nor the tutorial's running flag nor the tutorial's
\* timers, only the round-results leaderboard; and a message that
\* switches to another screen cancels neither: the pending callback stays
\* pending with its delay and its entries
RoundCallbacksKeepFrame ==
    [][/\ (last'.kind = "timer" /\ last'.type \in {"reorder", "settle"})
            => /\ UNCHANGED <<currentScreen, active, status, tutorialRunning,
                              tutorialTimeouts, stepClass, stepDisplay,
                              roundPlayers, roundResultsReorderTimeout,
                              answeringTimer, votingTimer, matchupWinners,
                              gameBadges, senders>>
               /\ TutorialTimersOf(timers') = TutorialTimersOf(timers)
               /\ out' = <<>>
       /\ (last'.kind = "message" /\ last'.type # "round_results")
            => /\ RoundTimersOf(timers') = RoundTimersOf(timers)
               /\ leaderboard' = leaderboard
               /\ roundResultsReorderTimeout' = roundResultsReorderTimeout
       /\ leaderboard' # leaderboard
            => \/ last'.kind = "message" /\ last'.type = "round_results"
               \/ last'.kind = "timer" /\ last'.type \in {"reorder", "settle"}]_vars

\* the dwell callback has run while the tutorial, started after the
\* round_results message, was on screen
ReorderedUnderTutorial ==
    /\ last.kind = "timer" /\ last.type = "reorder"
    /\ currentScreen = "tutorial"
    /\ tutorialRunning
    /\ roundPlayers = ScenarioPlayers
    /\ leaderboard[1].transform = "translateY"

(***************************************************************************)
(* Renders that throw, under SpecFail.                                     *)
(***************************************************************************)
\* the pending tutorial timers with their remaining delays
TutorialScheduleOf(ts) ==
    {<<ts[i].id, ts[i].fn, ts[i].a, ts[i].b, ts[i].due>> :
        i \in TutorialPending(ts)}

\* C30: a recognized message whose render throws on a missing list (lobby,
\* matchup_results, round_results, game_results) is handled to the end:
\* the current screen and the active class stay, a running tutorial keeps
\* its flag, its handles, its visible step and every pending timer with
\* its delay, and nothing is sent
FailedRenderKeepsScreen ==
    [][\A m \in FaultyMessages :
          (last'.kind = "message" /\ last'.type = m.type /\ Receive(m)) =>
              /\ UNCHANGED <<currentScreen, active, tutorialRunning,
                             tutorialTimeouts, stepClass, stepDisplay,
                             senders>>
              /\ TutorialScheduleOf(timers') = TutorialScheduleOf(timers)
              /\ out' = <<>>]_vars

\* a round_results message without its players has been handled while
\* step 2 of the tutorial was shown and the dwell timer was pending
FailedRoundResultsDuringTutorial ==
    /\ last.kind = "message"
    /\ last.type = "round_results"
    /\ last.onTutorial
    /\ last.rr = "dwell"
    /\ tutorialRunning
    /\ VisibleSteps = {2}
    /\ roundPlayers = <<>>
    /\ leaderboard = <<>>

====
